---- MODULE Spec2Model ----
(***************************************************************************)
(* A model of copy_font_glyphs.py: the command line entry point main, the  *)
(* merge copy_glyphs and the helpers it calls (range parsing, cmap lookup, *)
(* component closure, glyph name allocation, family renaming).             *)
(*                                                                         *)
(* Text that the program inspects character by character (range strings,   *)
(* family and subfamily names) is a sequence of one-character strings.     *)
(* Glyph names are strings.  A font is a record of its tables.             *)
(***************************************************************************)
EXTENDS Integers, Sequences, FiniteSets, TLC

(***************************************************************************)
(* Bounds of the model.                                                    *)
(***************************************************************************)
\* the longest list of -r arguments in the general input family
MaxRanges == 2
\* the longest naming table in the renaming input family
MaxNames == 3

(***************************************************************************)
(* Python built-ins used by the program.                                   *)
(***************************************************************************)
LowerCase ==
    << "a", "b", "c", "d", "e", "f", "g", "h", "i", "j", "k", "l", "m",
       "n", "o", "p", "q", "r", "s", "t", "u", "v", "w", "x", "y", "z" >>

UpperCase ==
    << "A", "B", "C", "D", "E", "F", "G", "H", "I", "J", "K", "L", "M",
       "N", "O", "P", "Q", "R", "S", "T", "U", "V", "W", "X", "Y", "Z" >>

HexDigits ==
    << "0", "1", "2", "3", "4", "5", "6", "7", "8", "9",
       "A", "B", "C", "D", "E", "F" >>

\* str.upper() on one character
UpperChar(c) ==
    IF \E i \in 1..26 : LowerCase[i] = c
    THEN UpperCase[CHOOSE i \in 1..26 : LowerCase[i] = c]
    ELSE c

\* str.upper()
upper(s) == [i \in 1..Len(s) |-> UpperChar(s[i])]

IsSpace(c) == c \in {" ", "\t", "\n"}

RECURSIVE lstrip(_)
lstrip(s) == IF s # <<>> /\ IsSpace(Head(s)) THEN lstrip(Tail(s)) ELSE s

RECURSIVE rstrip(_)
rstrip(s) ==
    IF s # <<>> /\ IsSpace(s[Len(s)])
    THEN rstrip(SubSeq(s, 1, Len(s) - 1))
    ELSE s

\* str.strip()
strip(s) == rstrip(lstrip(s))

\* str.startswith(p)
startswith(s, p) == Len(s) >= Len(p) /\ SubSeq(s, 1, Len(p)) = p

\* str.replace(' ', '')
RemoveSpaces(s) == SelectSeq(s, LAMBDA c : c # " ")

IsHexChar(c) == \E i \in 1..16 : HexDigits[i] = UpperChar(c)

HexValue(c) == (CHOOSE i \in 1..16 : HexDigits[i] = UpperChar(c)) - 1

RECURSIVE HexNumber(_)
HexNumber(ds) ==
    IF ds = <<>>
    THEN 0
    ELSE HexNumber(SubSeq(ds, 1, Len(ds) - 1)) * 16 + HexValue(ds[Len(ds)])

\* the digits of an int() literal: hex digits, single underscores between them
ValidDigits(ds, afterPrefix) ==
    /\ ds # <<>>
    /\ ds[Len(ds)] # "_"
    /\ (ds[1] = "_" => afterPrefix)
    /\ \A i \in 1..Len(ds) : ds[i] = "_" \/ IsHexChar(ds[i])
    /\ \A i \in 1..(Len(ds) - 1) : ~(ds[i] = "_" /\ ds[i + 1] = "_")

\* the result of a call that may raise ValueError
ValueError == [ok |-> FALSE, value |-> 0]

Value(v) == [ok |-> TRUE, value |-> v]

\* int(s, 16): surrounding whitespace, an optional sign, an optional 0x
\* prefix, then the digits; anything else raises ValueError
int16(s) ==
    LET t == strip(s)
        neg == t # <<>> /\ Head(t) = "-"
        u == IF t # <<>> /\ Head(t) \in {"+", "-"} THEN Tail(t) ELSE t
        pre == startswith(upper(u), <<"0", "X">>)
                 /\ ValidDigits(SubSeq(u, 3, Len(u)), TRUE)
        ds == IF pre THEN SubSeq(u, 3, Len(u)) ELSE u
        n == HexNumber(SelectSeq(ds, LAMBDA c : c # "_"))
    IN  IF ValidDigits(ds, pre)
        THEN Value(IF neg THEN 0 - n ELSE n)
        ELSE ValueError

\* f"{n:X}"
RECURSIVE HexString(_)
HexString(n) ==
    IF n < 16
    THEN HexDigits[n + 1]
    ELSE HexString(n \div 16) \o HexDigits[(n % 16) + 1]

RECURSIVE ZeroPad(_, _)
ZeroPad(s, w) == IF Len(s) >= w THEN s ELSE ZeroPad("0" \o s, w)

\* f"{n:04X}"
Hex04(n) == ZeroPad(HexString(n), 4)

\* range(a, b + 1) as a list
RangeList(a, b) == [i \in 1..(b - a + 1) |-> a + i - 1]

(***************************************************************************)
(* Range parsing.                                                          *)
(***************************************************************************)
parse_single_codepoint(cp_str) ==
    LET s == upper(strip(cp_str))
        t == IF startswith(s, <<"U", "+">>)
             THEN SubSeq(s, 3, Len(s))
             ELSE IF startswith(s, <<"0", "X">>)
                  THEN SubSeq(s, 3, Len(s))
                  ELSE s
    IN  int16(t)

\* the result of parse_unicode_range: the list, or ValueError raised
ParseError == [ok |-> FALSE, cps |-> <<>>]

\* a mutant of parse_unicode_range: the end of a range is left out
parse_unicode_range_exclusive(range_str) ==
    LET s == upper(strip(range_str))
    IN  IF \E i \in 1..Len(s) : s[i] = "-"
        THEN LET k == CHOOSE i \in 1..Len(s) :
                        s[i] = "-" /\ \A j \in 1..(i - 1) : s[j] # "-"
                 start == parse_single_codepoint(strip(SubSeq(s, 1, k - 1)))
                 end == parse_single_codepoint(strip(SubSeq(s, k + 1, Len(s))))
             IN  IF start.ok /\ end.ok
                 THEN [ok |-> TRUE, cps |-> RangeList(start.value, end.value - 1)]
                 ELSE ParseError
        ELSE LET one == parse_single_codepoint(s)
             IN  IF one.ok
                 THEN [ok |-> TRUE, cps |-> <<one.value>>]
                 ELSE ParseError

parse_unicode_range(range_str) ==
    LET s == upper(strip(range_str))
    IN  IF \E i \in 1..Len(s) : s[i] = "-"
        THEN LET k == CHOOSE i \in 1..Len(s) :
                        s[i] = "-" /\ \A j \in 1..(i - 1) : s[j] # "-"
                 start == parse_single_codepoint(strip(SubSeq(s, 1, k - 1)))
                 end == parse_single_codepoint(strip(SubSeq(s, k + 1, Len(s))))
             IN  IF start.ok /\ end.ok
                 THEN [ok |-> TRUE, cps |-> RangeList(start.value, end.value)]
                 ELSE ParseError
        ELSE LET one == parse_single_codepoint(s)
             IN  IF one.ok
                 THEN [ok |-> TRUE, cps |-> <<one.value>>]
                 ELSE ParseError

(***************************************************************************)
(* Values.  An optional value (Python's None or a value) is a sequence of  *)
(* length at most one.                                                     *)
(***************************************************************************)
None == <<>>

Some(v) == <<v>>

\* f with f[k] set to v
Put(f, k, v) == [x \in DOMAIN f \cup {k} |-> IF x = k THEN v ELSE f[x]]

Min(S) == CHOOSE a \in S : \A b \in S : a <= b

\* a dict, which keeps the order in which its keys were first inserted
EmptyDict == [keys |-> <<>>, val |-> <<>>]

DictSet(d, k, v) ==
    [keys |-> IF k \in DOMAIN d.val THEN d.keys ELSE Append(d.keys, k),
     val |-> Put(d.val, k, v)]

\* a line the program prints
Line(ev, codepoint, glyph) == [ev |-> ev, codepoint |-> codepoint, glyph |-> glyph]

(***************************************************************************)
(* Fonts.  A font is [tables, cmap, glyf, hmtx, vmtx, names]: the tags of  *)
(* its tables, the cmap sub-tables in order, the glyph table (name ->      *)
(* glyph), the metrics tables (name -> metrics) and the naming records.    *)
(* A glyph is [outline, components]; it is composite when it has           *)
(* components.  A cmap sub-table is a record whose cmap field maps         *)
(* codepoints to glyph names.                                              *)
(***************************************************************************)
isComposite(glyph) == glyph.components # <<>>

hasattr_cmap(table) == "cmap" \in DOMAIN table

get_glyph_name_for_codepoint(font, codepoint) ==
    LET hits == {i \in 1..Len(font.cmap) : codepoint \in DOMAIN font.cmap[i].cmap}
    IN  IF hits = {}
        THEN None
        ELSE Some(font.cmap[Min(hits)].cmap[codepoint])

\* a mutant of get_component_glyphs: the components of the glyph alone
get_component_glyphs_direct(font, glyph_name) ==
    IF "glyf" \notin font.tables
    THEN {}
    ELSE IF glyph_name \notin DOMAIN font.glyf
         THEN {}
         ELSE LET glyph == font.glyf[glyph_name]
              IN  IF isComposite(glyph)
                  THEN {glyph.components[i] : i \in 1..Len(glyph.components)}
                  ELSE {}

\* the try block and its bare except: a glyph the table does not hold gives
\* the empty set; the names of the components are added whether or not the
\* table holds them
RECURSIVE get_component_glyphs(_, _)
get_component_glyphs(font, glyph_name) ==
    IF "glyf" \notin font.tables
    THEN {}
    ELSE IF glyph_name \notin DOMAIN font.glyf
         THEN {}
         ELSE LET glyph == font.glyf[glyph_name]
              IN  IF isComposite(glyph)
                  THEN UNION { {glyph.components[i]}
                                 \cup get_component_glyphs(font, glyph.components[i]) :
                               i \in 1..Len(glyph.components) }
                  ELSE {}

\* the largest codepoint named uniXXXX
BMPMax == 65535

AltName(base_name, counter) == base_name \o ".alt" \o ToString(counter)

RECURSIVE AltCounter(_, _, _)
AltCounter(base_name, existing_names, counter) ==
    IF AltName(base_name, counter) \in existing_names
    THEN AltCounter(base_name, existing_names, counter + 1)
    ELSE counter

BaseName(codepoint) ==
    IF codepoint <= BMPMax
    THEN "uni" \o Hex04(codepoint)
    ELSE "u" \o Hex04(codepoint)

\* a mutant of generate_glyph_name: the first suffix is taken unchecked
generate_glyph_name_alt1(codepoint, existing_names) ==
    LET base_name == BaseName(codepoint)
    IN  IF base_name \notin existing_names
        THEN base_name
        ELSE AltName(base_name, 1)

generate_glyph_name(codepoint, existing_names) ==
    LET base_name == BaseName(codepoint)
    IN  IF base_name \notin existing_names
        THEN base_name
        ELSE AltName(base_name, AltCounter(base_name, existing_names, 1))

Regular == <<"R", "e", "g", "u", "l", "a", "r">>

\* a mutant of rename_font_family: the PostScript name keeps its spaces
rename_font_family_spaces(font, new_family_name) ==
    IF "name" \notin font.tables
    THEN font
    ELSE LET twos == {i \in 1..Len(font.names) : font.names[i].nameID = 2}
             subfamily == IF twos = {} THEN Regular ELSE font.names[Min(twos)].string
             Renamed(record) ==
                 CASE record.nameID = 1 -> [record EXCEPT !.string = new_family_name]
                   [] record.nameID = 4 ->
                        [record EXCEPT !.string = new_family_name \o <<" ">> \o subfamily]
                   [] record.nameID = 6 ->
                        [record EXCEPT !.string = new_family_name \o <<"-">> \o subfamily]
                   [] record.nameID = 16 -> [record EXCEPT !.string = new_family_name]
                   [] OTHER -> record
         IN  [font EXCEPT !.names = [i \in 1..Len(font.names) |-> Renamed(font.names[i])]]

rename_font_family(font, new_family_name) ==
    IF "name" \notin font.tables
    THEN font
    ELSE LET twos == {i \in 1..Len(font.names) : font.names[i].nameID = 2}
             subfamily == IF twos = {} THEN Regular ELSE font.names[Min(twos)].string
             Renamed(record) ==
                 CASE record.nameID = 1 -> [record EXCEPT !.string = new_family_name]
                   [] record.nameID = 4 ->
                        [record EXCEPT !.string = new_family_name \o <<" ">> \o subfamily]
                   [] record.nameID = 6 ->
                        [record EXCEPT !.string =
                            RemoveSpaces(new_family_name) \o <<"-">> \o RemoveSpaces(subfamily)]
                   [] record.nameID = 16 -> [record EXCEPT !.string = new_family_name]
                   [] OTHER -> record
         IN  [font EXCEPT !.names = [i \in 1..Len(font.names) |-> Renamed(font.names[i])]]

variation_tables == <<"fvar", "gvar", "avar", "STAT", "MVAR", "HVAR", "VVAR">>

(***************************************************************************)
(* The merge of copy_glyphs, one loop iteration at a time.  m is the       *)
(* record of the locals the loops update:                                  *)
(*   glyphs_to_copy, component_glyphs, existing_glyph_names,               *)
(*   copied_count, skipped_count, dest_font, stdout.                       *)
(***************************************************************************)
\* one iteration of the first pass, for a codepoint of the request
first_pass(m, source_font, codepoint) ==
    LET source_glyph_name == get_glyph_name_for_codepoint(source_font, codepoint)
    IN  IF source_glyph_name = None
        THEN [m EXCEPT !.skipped_count = @ + 1,
                       !.stdout = Append(@, Line("Skip", Some(codepoint), ""))]
        ELSE LET dest_glyph_name ==
                     generate_glyph_name(codepoint, m.existing_glyph_names)
             IN  [m EXCEPT
                    !.existing_glyph_names = @ \cup {dest_glyph_name},
                    !.glyphs_to_copy =
                        DictSet(@, source_glyph_name[1],
                                [codepoint |-> Some(codepoint), dest |-> dest_glyph_name]),
                    !.component_glyphs =
                        @ \cup get_component_glyphs(source_font, source_glyph_name[1])]

\* one iteration of the loop that schedules the component glyphs
add_component(m, source_font, component_name) ==
    IF component_name \notin DOMAIN m.glyphs_to_copy.val
         /\ component_name \in DOMAIN source_font.glyf
    THEN [m EXCEPT !.glyphs_to_copy =
                       DictSet(@, component_name,
                               [codepoint |-> None, dest |-> component_name])]
    ELSE m

\* table[dest_glyph_name] = source table[source_glyph_name], when both fonts
\* have the metrics table and the source has the glyph in it
copy_metrics(tag, source_font, dest_font, source_glyph_name, dest_glyph_name) ==
    IF tag \in source_font.tables /\ tag \in dest_font.tables
         /\ source_glyph_name \in DOMAIN source_font[tag]
    THEN [dest_font EXCEPT ![tag] = Put(@, dest_glyph_name, source_font[tag][source_glyph_name])]
    ELSE dest_font

\* table.cmap[codepoint] = dest_glyph_name in every sub-table that has a cmap
update_cmap(dest_font, codepoint, dest_glyph_name) ==
    [dest_font EXCEPT !.cmap =
        [i \in 1..Len(@) |->
            IF hasattr_cmap(@[i])
            THEN [@[i] EXCEPT !.cmap = Put(@, codepoint, dest_glyph_name)]
            ELSE @[i]]]

\* whether the body of the second pass raises for this entry, and where
RaisesAt(m, source_font, source_glyph_name) ==
    IF source_glyph_name \notin DOMAIN source_font.glyf
    THEN "glyf"
    ELSE IF m.glyphs_to_copy.val[source_glyph_name].codepoint # None
              /\ "cmap" \notin m.dest_font.tables
         THEN "cmap"
         ELSE "no"

\* a mutant of copy_glyph: an entry that raises is not counted
copy_glyph_uncounted(m, source_font, source_glyph_name) ==
    LET entry == m.glyphs_to_copy.val[source_glyph_name]
        raises == RaisesAt(m, source_font, source_glyph_name)
        drawn == IF raises = "glyf"
                 THEN m.dest_font
                 ELSE [m.dest_font EXCEPT
                          !.glyf = Put(@, entry.dest, source_font.glyf[source_glyph_name])]
        hm == copy_metrics("hmtx", source_font, drawn, source_glyph_name, entry.dest)
        vm == copy_metrics("vmtx", source_font, hm, source_glyph_name, entry.dest)
    IN  IF raises = "glyf"
        THEN [m EXCEPT !.stdout = Append(@, Line("Error", entry.codepoint, source_glyph_name))]
        ELSE IF raises = "cmap"
             THEN [m EXCEPT !.dest_font = vm,
                            !.stdout = Append(@, Line("Error", entry.codepoint, source_glyph_name))]
             ELSE IF entry.codepoint # None
                  THEN [m EXCEPT
                          !.dest_font = update_cmap(vm, entry.codepoint[1], entry.dest),
                          !.copied_count = @ + 1,
                          !.stdout = Append(@, Line("Copied", entry.codepoint, entry.dest))]
                  ELSE [m EXCEPT
                          !.dest_font = vm,
                          !.stdout = Append(@, Line("Copied component", None, entry.dest))]

\* one iteration of the second pass, for a key of glyphs_to_copy: the try
\* block, and the except block when it raises.  The glyph drawn through the
\* pen and the deepcopy of the fallback are both the source glyph, stored
\* under the destination name.  source_glyf[name] raises KeyError for a name
\* the source glyf lacks, dest_font['cmap'] for a destination with no cmap.
copy_glyph(m, source_font, source_glyph_name) ==
    LET entry == m.glyphs_to_copy.val[source_glyph_name]
        raises == RaisesAt(m, source_font, source_glyph_name)
        drawn == IF raises = "glyf"
                 THEN m.dest_font
                 ELSE [m.dest_font EXCEPT
                          !.glyf = Put(@, entry.dest, source_font.glyf[source_glyph_name])]
        hm == copy_metrics("hmtx", source_font, drawn, source_glyph_name, entry.dest)
        vm == copy_metrics("vmtx", source_font, hm, source_glyph_name, entry.dest)
    IN  IF raises = "glyf"
        THEN [m EXCEPT !.skipped_count = @ + 1,
                       !.stdout = Append(@, Line("Error", entry.codepoint, source_glyph_name))]
        ELSE IF raises = "cmap"
             THEN [m EXCEPT !.dest_font = vm,
                            !.skipped_count = @ + 1,
                            !.stdout = Append(@, Line("Error", entry.codepoint, source_glyph_name))]
             ELSE IF entry.codepoint # None
                  THEN [m EXCEPT
                          !.dest_font = update_cmap(vm, entry.codepoint[1], entry.dest),
                          !.copied_count = @ + 1,
                          !.stdout = Append(@, Line("Copied", entry.codepoint, entry.dest))]
                  ELSE [m EXCEPT
                          !.dest_font = vm,
                          !.stdout = Append(@, Line("Copied component", None, entry.dest))]

\* the variable-font tables the destination holds, in the order of the list
present_variation_tables(font) ==
    SelectSeq(variation_tables, LAMBDA table_tag : table_tag \in font.tables)

\* a mutant of strip_variation_tables: the last tag of the list is forgotten
strip_variation_tables_short(font) ==
    [font EXCEPT !.tables =
        @ \ {variation_tables[i] : i \in 1..(Len(variation_tables) - 1)}]

\* del dest_font[table_tag] for every variable-font table it holds
strip_variation_tables(font) ==
    [font EXCEPT !.tables = @ \ {variation_tables[i] : i \in 1..Len(variation_tables)}]

(***************************************************************************)
(* The three loops of copy_glyphs run to their end on a list of            *)
(* codepoints, from the destination as loaded.                             *)
(***************************************************************************)
RECURSIVE first_pass_all(_, _, _)
first_pass_all(m, source_font, codepoints) ==
    IF codepoints = <<>>
    THEN m
    ELSE first_pass_all(first_pass(m, source_font, Head(codepoints)),
                        source_font, Tail(codepoints))

RECURSIVE add_components_all(_, _, _)
add_components_all(m, source_font, components) ==
    IF components = {}
    THEN m
    ELSE LET component_name == CHOOSE c \in components : TRUE
         IN  add_components_all(add_component(m, source_font, component_name),
                                source_font, components \ {component_name})

RECURSIVE second_pass_all(_, _, _)
second_pass_all(m, source_font, i) ==
    IF i > Len(m.glyphs_to_copy.keys)
    THEN m
    ELSE second_pass_all(copy_glyph(m, source_font, m.glyphs_to_copy.keys[i]),
                         source_font, i + 1)

merge(source_font, dest_font, codepoints) ==
    LET start == [glyphs_to_copy |-> EmptyDict, component_glyphs |-> {},
                  existing_glyph_names |-> DOMAIN dest_font.glyf,
                  copied_count |-> 0, skipped_count |-> 0,
                  dest_font |-> dest_font, stdout |-> <<>>]
        first == first_pass_all(start, source_font, codepoints)
        second == add_components_all(first, source_font, first.component_glyphs)
    IN  second_pass_all(second, source_font, 1)

(***************************************************************************)
(* The input families.                                                     *)
(***************************************************************************)
PartialFunctions(D, R) == UNION {[S -> R] : S \in SUBSET D}

SeqsUpTo(S, n) == UNION {[1..k -> S] : k \in 1..n}

CmapTable(f) == [cmap |-> f]

Glyph(outline, components) == [outline |-> outline, components |-> components]

\* the source glyph table: two simple glyphs and a composite of them
SourceGlyf ==
    [name \in {"A", "acute", "Aacute"} |->
        IF name = "Aacute"
        THEN Glyph("source Aacute", <<"A", "acute">>)
        ELSE Glyph("source " \o name, <<>>)]

SourceMetrics ==
    [name \in {"A", "acute", "Aacute"} |->
        CASE name = "A" -> <<600, 10>>
          [] name = "acute" -> <<300, 40>>
          [] OTHER -> <<610, 12>>]

SourceFont(cmap) ==
    [tables |-> {"cmap", "glyf", "hmtx", "vmtx"},
     cmap |-> cmap,
     glyf |-> SourceGlyf,
     hmtx |-> SourceMetrics,
     vmtx |-> [name \in {"A"} |-> <<1000, 0>>],
     names |-> <<>>]

\* every cmap sub-table over two codepoints: each is absent or names a simple
\* glyph, the composite, or a glyph the glyph table does not hold
SourceCmapTables ==
    {CmapTable(f) : f \in PartialFunctions({65, 66}, {"A", "Aacute", "ghost"})}

SourceFonts ==
    {SourceFont(<<t>>) : t \in SourceCmapTables}
      \cup {SourceFont(<<CmapTable(65 :> "A"), CmapTable(65 :> "Aacute" @@ 66 :> "acute")>>)}

NameRecord(nameID, string) == [nameID |-> nameID, string |-> string]

DestNames ==
    << NameRecord(1, <<"O", "l", "d">>), NameRecord(2, <<"B", "o", "l", "d">>),
       NameRecord(4, <<"O", "l", "d", " ", "B", "o", "l", "d">>),
       NameRecord(6, <<"O", "l", "d", "-", "B", "o", "l", "d">>) >>

DestGlyf(names) == [name \in names |-> Glyph("dest " \o name, <<>>)]

DestMetrics(names) == [name \in names |-> <<500, 0>>]

DestFont(tables, cmap, names) ==
    [tables |-> tables,
     cmap |-> cmap,
     glyf |-> DestGlyf(names),
     hmtx |-> DestMetrics(names),
     vmtx |-> <<>>,
     names |-> DestNames]

\* a destination that maps a codepoint and holds a glyph of a source name
DestPlain ==
    DestFont({"cmap", "glyf", "hmtx", "name", "fvar", "gvar"},
             <<CmapTable(65 :> "A")>>, {".notdef", "A"})

\* a destination whose glyph names collide with the names to allocate
DestCollide ==
    DestFont({"cmap", "glyf", "hmtx", "vmtx", "name"},
             <<CmapTable(65 :> "uni0041"), CmapTable(<<>>)>>,
             {".notdef", "acute", "uni0041", "uni0041.alt1"})

\* a destination with no cmap table
DestNoCmap ==
    [DestFont({"glyf", "hmtx", "name", "STAT"}, <<>>, {".notdef"}) EXCEPT !.names = <<>>]

DestFonts == {DestPlain, DestCollide, DestNoCmap}

Chars(s) ==
    CASE s = "41" -> <<"4", "1">>
      [] s = "U+41-u+42" -> <<"U", "+", "4", "1", "-", "u", "+", "4", "2">>
      [] s = "0x42" -> <<"0", "x", "4", "2">>
      [] s = "FFFF" -> <<"F", "F", "F", "F">>
      [] s = "4G" -> <<"4", "G">>
      [] s = "10000" -> <<"1", "0", "0", "0", "0">>
      [] s = "FFFF-10000" -> <<"F", "F", "F", "F", "-", "1", "0", "0", "0", "0">>
      [] s = "My Font" -> <<"M", "y", " ", "F", "o", "n", "t">>
      [] s = "Semi Bold" -> <<"S", "e", "m", "i", " ", "B", "o", "l", "d">>
      [] s = "Bold" -> <<"B", "o", "l", "d">>
      [] s = "Mono" -> <<"M", "o", "n", "o">>

RangeSamples == {Chars("41"), Chars("U+41-u+42"), Chars("0x42"), Chars("FFFF"), Chars("4G")}

Input(source, dest, ranges, family_name) ==
    [source_exists |-> TRUE, dest_exists |-> TRUE, writable |-> TRUE,
     source |-> source, dest |-> dest, ranges |-> ranges, family_name |-> family_name]

\* requests of up to MaxRanges ranges, over every source and destination
InputsGeneral ==
    {Input(s, d, r, <<>>) :
        s \in SourceFonts, d \in DestFonts, r \in SeqsUpTo(RangeSamples, MaxRanges)}

\* missing files, an output that cannot be written, fonts without a glyf or
\* a cmap table
InputsEnvironment ==
    LET ok == Input(SourceFont(<<CmapTable(65 :> "A")>>), DestPlain, <<Chars("41")>>, <<>>)
    IN  { [ok EXCEPT !.source_exists = FALSE],
          [ok EXCEPT !.dest_exists = FALSE],
          [ok EXCEPT !.source_exists = FALSE, !.dest_exists = FALSE],
          [ok EXCEPT !.writable = FALSE],
          [ok EXCEPT !.source.tables = @ \ {"glyf"}, !.source.glyf = <<>>],
          [ok EXCEPT !.dest.tables = @ \ {"glyf"}, !.dest.glyf = <<>>],
          [ok EXCEPT !.source.tables = @ \ {"cmap"}, !.source.cmap = <<>>],
          [ok EXCEPT !.source.tables = @ \ {"hmtx"}, !.source.hmtx = <<>>] }

Prefixes == {<<>>, <<"U", "+">>, <<"u", "+">>, <<"0", "x">>, <<"0", "X">>}

\* the endpoints of the parsed ranges: the digits and the number they denote
Endpoints ==
    { [text |-> <<"4", "1">>, value |-> 65], [text |-> <<"4", "2">>, value |-> 66],
      [text |-> <<"4", "a">>, value |-> 74], [text |-> <<"4", "A">>, value |-> 74],
      [text |-> <<"0", "0", "4", "3">>, value |-> 67] }

RangeText(pa, a, pb, b) == pa \o a.text \o <<"-">> \o pb \o b.text

\* one range or one bare value, under every choice of prefixes
InputsParse ==
    LET s == SourceFont(<<CmapTable(65 :> "A" @@ 66 :> "Aacute")>>)
    IN  {Input(s, DestPlain, <<RangeText(pa, a, pb, b)>>, <<>>) :
            pa \in Prefixes, a \in Endpoints, pb \in Prefixes, b \in Endpoints}
          \cup {Input(s, DestPlain, <<pa \o a.text>>, <<>>) : pa \in Prefixes, a \in Endpoints}

\* the naming records of the renaming family
NameRecords ==
    {NameRecord(1, Chars("Mono")), NameRecord(2, Chars("Bold")),
     NameRecord(2, Chars("Semi Bold")), NameRecord(3, Chars("Mono")),
     NameRecord(4, Chars("Mono")), NameRecord(6, Chars("Mono")),
     NameRecord(16, Chars("Mono"))}

FamilyNames == {Chars("Mono"), Chars("My Font")}

\* every naming table of up to MaxNames records, and a font with none
InputsRename ==
    LET s == SourceFont(<<CmapTable(65 :> "A")>>)
    IN  {Input(s, [DestPlain EXCEPT !.names = n], <<Chars("41")>>, f) :
            n \in SeqsUpTo(NameRecords, MaxNames), f \in FamilyNames}
          \cup {Input(s, DestNoCmap, <<Chars("41")>>, f) : f \in FamilyNames}
          \cup {Input(s, [DestNoCmap EXCEPT !.tables = @ \ {"name"}], <<Chars("FFFF")>>, f) :
                  f \in FamilyNames}

\* every set of variable-font tables
InputsVariable ==
    LET s == SourceFont(<<CmapTable(65 :> "A")>>)
    IN  {Input(s, [DestPlain EXCEPT !.tables = {"cmap", "glyf", "hmtx", "name"} \cup v],
               <<Chars("41")>>, <<>>) :
            v \in SUBSET {variation_tables[i] : i \in 1..Len(variation_tables)}}

\* the component lists of the nested composites: of the outer composite
\* (every choice of the inner composite, the innermost glyph and a glyph the
\* table does not hold, and a list that repeats a component) and of the
\* inner one
OuterComponents ==
    { <<"Aring">>, <<"ring">>, <<"missing">>, <<"Aring", "ring">>,
      <<"Aring", "missing">>, <<"ring", "missing">>,
      <<"Aring", "ring", "missing">>, <<"ring", "Aring", "ring">> }

InnerComponents == { <<>>, <<"ring">>, <<"missing">>, <<"ring", "missing">> }

\* the innermost glyph is simple, refers to a glyph the table does not hold,
\* or is itself not in the table
InnermostKinds == {"simple", "composite", "absent"}

\* an acyclic glyph table: Aringacute refers to outer, Aring to inner
NestedGlyf(outer, inner, innermost) ==
    [name \in {"Aringacute", "Aring"}
               \cup (IF innermost = "absent" THEN {} ELSE {"ring"}) |->
        CASE name = "Aringacute" -> Glyph("source Aringacute", outer)
          [] name = "Aring" -> Glyph("source Aring", inner)
          [] OTHER -> Glyph("source ring",
                            IF innermost = "composite" THEN <<"missing">> ELSE <<>>)]

\* a request for a codepoint of a composite of composites
InputsNested ==
    {Input([SourceFont(<<CmapTable(65 :> "Aringacute")>>) EXCEPT
               !.glyf = NestedGlyf(outer, inner, innermost)],
           DestPlain, <<Chars("41")>>, <<>>) :
        outer \in OuterComponents, inner \in InnerComponents,
        innermost \in InnermostKinds}

\* the names a destination may hold that the allocator has to avoid
TakenNames == {"uniFFFF", "uniFFFF.alt1", "uniFFFF.alt2", "u10000", "u10000.alt1"}

\* requests on both sides of U+FFFF, some made twice, against destinations
\* that hold every set of the names to allocate
InputsNaming ==
    LET s == SourceFont(<<CmapTable(65535 :> "A" @@ 65536 :> "acute")>>)
    IN  {Input(s, DestFont({"cmap", "glyf", "hmtx", "name"}, <<CmapTable(<<>>)>>,
                           {".notdef"} \cup taken), r, <<>>) :
            taken \in SUBSET TakenNames,
            r \in { <<Chars("FFFF")>>, <<Chars("10000")>>, <<Chars("FFFF-10000")>>,
                    <<Chars("FFFF"), Chars("FFFF")>>, <<Chars("10000"), Chars("10000")>> }}

Inputs ==
    InputsGeneral \cup InputsEnvironment \cup InputsParse \cup InputsRename
        \cup InputsVariable \cup InputsNested \cup InputsNaming

(***************************************************************************)
(* The state: the command line and the files (input), the position in      *)
(* main and copy_glyphs (pc), the locals of copy_glyphs, what was printed  *)
(* (stdout), the file operations performed (io), the fonts held open, the  *)
(* file written (output), the exception propagating out of copy_glyphs     *)
(* (exc) and the exit code of the process.                                 *)
(***************************************************************************)
VARIABLES
    input, pc, source_font, dest_font, open_fonts, codepoints_to_copy, idx,
    todo, glyphs_to_copy, component_glyphs, existing_glyph_names,
    copied_count, skipped_count, removed_tables, stdout, io, output, exc,
    exit_code

vars ==
    << input, pc, source_font, dest_font, open_fonts, codepoints_to_copy, idx,
       todo, glyphs_to_copy, component_glyphs, existing_glyph_names,
       copied_count, skipped_count, removed_tables, stdout, io, output, exc,
       exit_code >>

NoFont == [tables |-> {}, cmap |-> <<>>, glyf |-> <<>>, hmtx |-> <<>>, vmtx |-> <<>>, names |-> <<>>]

\* the locals that the loops of copy_glyphs update
Locals ==
    [glyphs_to_copy |-> glyphs_to_copy, component_glyphs |-> component_glyphs,
     existing_glyph_names |-> existing_glyph_names, copied_count |-> copied_count,
     skipped_count |-> skipped_count, dest_font |-> dest_font, stdout |-> stdout]

Assign(m) ==
    /\ glyphs_to_copy' = m.glyphs_to_copy
    /\ component_glyphs' = m.component_glyphs
    /\ existing_glyph_names' = m.existing_glyph_names
    /\ copied_count' = m.copied_count
    /\ skipped_count' = m.skipped_count
    /\ dest_font' = m.dest_font
    /\ stdout' = m.stdout

Init ==
    /\ input \in Inputs
    /\ pc = "main"
    /\ source_font = NoFont
    /\ dest_font = NoFont
    /\ open_fonts = {}
    /\ codepoints_to_copy = <<>>
    /\ idx = 1
    /\ todo = {}
    /\ glyphs_to_copy = EmptyDict
    /\ component_glyphs = {}
    /\ existing_glyph_names = {}
    /\ copied_count = 0
    /\ skipped_count = 0
    /\ removed_tables = <<>>
    /\ stdout = <<>>
    /\ io = <<>>
    /\ output = None
    /\ exc = None
    /\ exit_code = None

UnchangedLocals ==
    UNCHANGED << glyphs_to_copy, component_glyphs, existing_glyph_names,
                 copied_count, skipped_count, dest_font, stdout >>

\* an exception leaves copy_glyphs for the except clause of main
Raise(name) ==
    /\ exc' = Some(name)
    /\ pc' = "except"

(***************************************************************************)
(* main                                                                    *)
(***************************************************************************)
\* sys.exit(1) when the source path does not exist
MainCheckSource ==
    /\ pc = "main"
    /\ IF input.source_exists
       THEN /\ pc' = "check_dest"
            /\ UNCHANGED << stdout, exit_code >>
       ELSE /\ stdout' = Append(stdout, Line("Error: Source font file not found", None, ""))
            /\ exit_code' = Some(1)
            /\ pc' = "exit"
    /\ UNCHANGED << input, source_font, dest_font, open_fonts, codepoints_to_copy, idx,
                    todo, glyphs_to_copy, component_glyphs, existing_glyph_names,
                    copied_count, skipped_count, removed_tables, io, output, exc >>

\* sys.exit(1) when the destination path does not exist, else the call
MainCheckDest ==
    /\ pc = "check_dest"
    /\ IF input.dest_exists
       THEN /\ pc' = "load_source"
            /\ UNCHANGED << stdout, exit_code >>
       ELSE /\ stdout' = Append(stdout, Line("Error: Destination font file not found", None, ""))
            /\ exit_code' = Some(1)
            /\ pc' = "exit"
    /\ UNCHANGED << input, source_font, dest_font, open_fonts, codepoints_to_copy, idx,
                    todo, glyphs_to_copy, component_glyphs, existing_glyph_names,
                    copied_count, skipped_count, removed_tables, io, output, exc >>

\* copy_glyphs returned: main falls off its end
MainReturn ==
    /\ pc = "return"
    /\ exit_code' = Some(0)
    /\ pc' = "exit"
    /\ UNCHANGED << input, source_font, dest_font, open_fonts, codepoints_to_copy, idx,
                    todo, glyphs_to_copy, component_glyphs, existing_glyph_names,
                    copied_count, skipped_count, removed_tables, stdout, io, output, exc >>

\* a mutant of MainExcept: the error is printed and main falls off its end
MainExcept_exit0 ==
    /\ pc = "except"
    /\ stdout' = Append(stdout, Line("Fatal", None, exc[1]))
    /\ exit_code' = Some(0)
    /\ pc' = "exit"
    /\ UNCHANGED << input, source_font, dest_font, open_fonts, codepoints_to_copy, idx,
                    todo, glyphs_to_copy, component_glyphs, existing_glyph_names,
                    copied_count, skipped_count, removed_tables, io, output, exc >>

\* except Exception: the error is printed and the process exits with 1
MainExcept ==
    /\ pc = "except"
    /\ stdout' = Append(stdout, Line("Fatal", None, exc[1]))
    /\ exit_code' = Some(1)
    /\ pc' = "exit"
    /\ UNCHANGED << input, source_font, dest_font, open_fonts, codepoints_to_copy, idx,
                    todo, glyphs_to_copy, component_glyphs, existing_glyph_names,
                    copied_count, skipped_count, removed_tables, io, output, exc >>

(***************************************************************************)
(* copy_glyphs                                                             *)
(***************************************************************************)
\* source_font = TTFont(source_font_path)
LoadSource ==
    /\ pc = "load_source"
    /\ stdout' = Append(stdout, Line("Loading source font", None, ""))
    /\ io' = Append(io, [op |-> "open", file |-> "source"])
    /\ source_font' = input.source
    /\ open_fonts' = open_fonts \cup {"source"}
    /\ pc' = "load_dest"
    /\ UNCHANGED << input, dest_font, codepoints_to_copy, idx, todo, glyphs_to_copy,
                    component_glyphs, existing_glyph_names, copied_count,
                    skipped_count, removed_tables, output, exc, exit_code >>

\* dest_font = TTFont(dest_font_path)
LoadDest ==
    /\ pc = "load_dest"
    /\ stdout' = Append(stdout, Line("Loading destination font", None, ""))
    /\ io' = Append(io, [op |-> "open", file |-> "dest"])
    /\ dest_font' = input.dest
    /\ open_fonts' = open_fonts \cup {"dest"}
    /\ idx' = 1
    /\ pc' = "parse"
    /\ UNCHANGED << input, source_font, codepoints_to_copy, todo, glyphs_to_copy,
                    component_glyphs, existing_glyph_names, copied_count,
                    skipped_count, removed_tables, output, exc, exit_code >>

\* one iteration of the loop over unicode_ranges
ParseRange ==
    /\ pc = "parse"
    /\ IF idx > Len(input.ranges)
       THEN /\ pc' = "tables"
            /\ UNCHANGED << codepoints_to_copy, idx, exc >>
       ELSE LET codepoints == parse_unicode_range(input.ranges[idx])
            IN  IF codepoints.ok
                THEN /\ codepoints_to_copy' = codepoints_to_copy \o codepoints.cps
                     /\ idx' = idx + 1
                     /\ UNCHANGED << pc, exc >>
                ELSE /\ Raise("ValueError")
                     /\ UNCHANGED << codepoints_to_copy, idx >>
    /\ UNCHANGED << input, source_font, open_fonts, todo, removed_tables, io, output,
                    exit_code >>
    /\ UnchangedLocals

\* the counters, the two glyf tables and the names the destination holds
GetTables ==
    /\ pc = "tables"
    /\ IF "glyf" \in source_font.tables /\ "glyf" \in dest_font.tables
       THEN /\ stdout' = Append(stdout, Line("Processing codepoints", None, ""))
            /\ copied_count' = 0
            /\ skipped_count' = 0
            /\ glyphs_to_copy' = EmptyDict
            /\ component_glyphs' = {}
            /\ existing_glyph_names' = DOMAIN dest_font.glyf
            /\ idx' = 1
            /\ pc' = "first_pass"
            /\ UNCHANGED exc
       ELSE /\ stdout' = Append(stdout, Line("Processing codepoints", None, ""))
            /\ Raise("KeyError")
            /\ UNCHANGED << copied_count, skipped_count, glyphs_to_copy,
                            component_glyphs, existing_glyph_names, idx >>
    /\ UNCHANGED << input, source_font, dest_font, open_fonts, codepoints_to_copy, todo,
                    removed_tables, io, output, exit_code >>

\* one iteration of the first pass; font['cmap'] raises when there is none
FirstPass ==
    /\ pc = "first_pass"
    /\ IF idx > Len(codepoints_to_copy)
       THEN /\ todo' = component_glyphs
            /\ pc' = "components"
            /\ UNCHANGED << idx, exc >>
            /\ UnchangedLocals
       ELSE IF "cmap" \in source_font.tables
            THEN /\ Assign(first_pass(Locals, source_font, codepoints_to_copy[idx]))
                 /\ idx' = idx + 1
                 /\ UNCHANGED << pc, todo, exc >>
            ELSE /\ Raise("KeyError")
                 /\ UNCHANGED << idx, todo >>
                 /\ UnchangedLocals
    /\ UNCHANGED << input, source_font, open_fonts, codepoints_to_copy, removed_tables,
                    io, output, exit_code >>

\* one iteration of the loop over the set component_glyphs, whose order of
\* iteration is any
Components ==
    /\ pc = "components"
    /\ IF todo = {}
       THEN /\ stdout' = Append(stdout, Line("Total glyphs to copy", None, ""))
            /\ idx' = 1
            /\ pc' = "second_pass"
            /\ UNCHANGED << todo, glyphs_to_copy >>
       ELSE /\ \E component_name \in todo :
                 /\ todo' = todo \ {component_name}
                 /\ glyphs_to_copy' =
                        add_component(Locals, source_font, component_name).glyphs_to_copy
            /\ UNCHANGED << stdout, idx, pc >>
    /\ UNCHANGED << input, source_font, dest_font, open_fonts, codepoints_to_copy,
                    component_glyphs, existing_glyph_names, copied_count,
                    skipped_count, removed_tables, io, output, exc, exit_code >>

\* one iteration of the second pass
SecondPass ==
    /\ pc = "second_pass"
    /\ IF idx > Len(glyphs_to_copy.keys)
       THEN /\ pc' = "rename"
            /\ UNCHANGED idx
            /\ UnchangedLocals
       ELSE /\ Assign(copy_glyph(Locals, source_font, glyphs_to_copy.keys[idx]))
            /\ idx' = idx + 1
            /\ UNCHANGED pc
    /\ UNCHANGED << input, source_font, open_fonts, codepoints_to_copy, todo,
                    removed_tables, io, output, exc, exit_code >>

\* if new_family_name: rename_font_family(dest_font, new_family_name)
Rename ==
    /\ pc = "rename"
    /\ IF input.family_name # <<>>
       THEN /\ dest_font' = rename_font_family(dest_font, input.family_name)
            /\ stdout' = Append(stdout,
                   Line(IF "name" \in dest_font.tables
                        THEN "Font family renamed"
                        ELSE "Warning: Font does not have a 'name' table", None, ""))
       ELSE UNCHANGED << dest_font, stdout >>
    /\ pc' = "strip"
    /\ UNCHANGED << input, source_font, open_fonts, codepoints_to_copy, idx, todo,
                    glyphs_to_copy, component_glyphs, existing_glyph_names,
                    copied_count, skipped_count, removed_tables, io, output, exc,
                    exit_code >>

\* the loop over variation_tables and the note it prints
StripTables ==
    /\ pc = "strip"
    /\ removed_tables' = present_variation_tables(dest_font)
    /\ dest_font' = strip_variation_tables(dest_font)
    /\ stdout' = IF removed_tables' # <<>>
                 THEN Append(stdout, Line("Note: Removed variable font tables", None, ""))
                 ELSE stdout
    /\ pc' = "save"
    /\ UNCHANGED << input, source_font, open_fonts, codepoints_to_copy, idx, todo,
                    glyphs_to_copy, component_glyphs, existing_glyph_names,
                    copied_count, skipped_count, io, output, exc, exit_code >>

\* dest_font.save(output_path), which raises when the file cannot be written
Save ==
    /\ pc = "save"
    /\ stdout' = Append(stdout, Line("Saving modified font", None, ""))
    /\ IF input.writable
       THEN /\ output' = Some(dest_font)
            /\ io' = Append(io, [op |-> "write", file |-> "output"])
            /\ pc' = "report"
            /\ UNCHANGED exc
       ELSE /\ Raise("OSError")
            /\ UNCHANGED << output, io >>
    /\ UNCHANGED << input, source_font, dest_font, open_fonts, codepoints_to_copy, idx,
                    todo, glyphs_to_copy, component_glyphs, existing_glyph_names,
                    copied_count, skipped_count, removed_tables, exit_code >>

\* the report, then source_font.close() and dest_font.close()
Report ==
    /\ pc = "report"
    /\ stdout' = stdout \o << Line("Complete", None, ""),
                              Line("Report copied", None, ToString(copied_count)),
                              Line("Report skipped", None, ToString(skipped_count)) >>
    /\ open_fonts' = {}
    /\ pc' = "return"
    /\ UNCHANGED << input, source_font, dest_font, codepoints_to_copy, idx, todo,
                    glyphs_to_copy, component_glyphs, existing_glyph_names,
                    copied_count, skipped_count, removed_tables, io, output, exc,
                    exit_code >>

Next ==
    \/ MainCheckSource
    \/ MainCheckDest
    \/ LoadSource
    \/ LoadDest
    \/ ParseRange
    \/ GetTables
    \/ FirstPass
    \/ Components
    \/ SecondPass
    \/ Rename
    \/ StripTables
    \/ Save
    \/ Report
    \/ MainReturn
    \/ MainExcept

Spec == Init /\ [][Next]_vars

(***************************************************************************)
(* What the claims speak of.                                               *)
(***************************************************************************)
\* copy_glyphs has returned to main
Returned == pc = "return"

\* the source glyph the i-th requested codepoint resolves to, or None
Resolves(i) == get_glyph_name_for_codepoint(input.source, codepoints_to_copy[i])

\* the lines of a kind that were printed
LinesOf(ev) == {i \in 1..Len(stdout) : stdout[i].ev = ev}

\* the second pass printed an error for this source glyph
CopyRaised(source_glyph_name) ==
    \E i \in LinesOf("Error") : stdout[i].glyph = source_glyph_name

\* the sub-table maps the codepoint to a glyph that is the copy of the source's
MapsToCopy(table, codepoint, source_glyph_name) ==
    /\ codepoint \in DOMAIN table.cmap
    /\ LET name == table.cmap[codepoint]
       IN  /\ name \in DOMAIN dest_font.glyf
           /\ dest_font.glyf[name] = input.source.glyf[source_glyph_name]
           /\ ("hmtx" \in input.source.tables /\ "hmtx" \in input.dest.tables
                 /\ source_glyph_name \in DOMAIN input.source.hmtx)
                => /\ name \in DOMAIN dest_font.hmtx
                   /\ dest_font.hmtx[name] = input.source.hmtx[source_glyph_name]

\* C1: after copy_glyphs completes, every requested codepoint that the
\* source resolves to a glyph G whose copy did not raise is mapped, in every
\* sub-table of the destination's cmap, to a glyph with G's outline and
\* horizontal metrics.
C1_RoundTrip ==
    Returned =>
        \A i \in 1..Len(codepoints_to_copy) :
            (Resolves(i) # None /\ ~CopyRaised(Resolves(i)[1])) =>
                \A t \in 1..Len(dest_font.cmap) :
                    MapsToCopy(dest_font.cmap[t], codepoints_to_copy[i], Resolves(i)[1])

\* the same, for the requests in which no two codepoints resolve to one glyph
C1_RoundTripDistinctGlyphs ==
    (Returned /\ \A i, j \in 1..Len(codepoints_to_copy) :
                    (Resolves(i) # None /\ Resolves(i) = Resolves(j))
                        => codepoints_to_copy[i] = codepoints_to_copy[j])
     => C1_RoundTrip

\* C2: when no copy raises, the report shows as copied the number of
\* requested codepoints the source resolves and as skipped the number it
\* does not resolve.
C2_ReportCounts ==
    (Returned /\ LinesOf("Error") = {}) =>
        /\ stdout[Len(stdout) - 1] =
               Line("Report copied", None,
                    ToString(Cardinality({i \in 1..Len(codepoints_to_copy) : Resolves(i) # None})))
        /\ stdout[Len(stdout)] =
               Line("Report skipped", None,
                    ToString(Cardinality({i \in 1..Len(codepoints_to_copy) : Resolves(i) = None})))

\* a request with its repeated codepoints listed once
RECURSIVE Dedup(_)
Dedup(codepoints) ==
    IF codepoints = <<>>
    THEN <<>>
    ELSE LET front == SubSeq(codepoints, 1, Len(codepoints) - 1)
             last == codepoints[Len(codepoints)]
         IN  IF \E i \in 1..Len(front) : front[i] = last
             THEN Dedup(front)
             ELSE Append(Dedup(front), last)

\* C3: the run ends with the destination glyph identifiers, the glyph table
\* and the cmap that the run on the request without its repetitions gives.
C3_DuplicatesNoOp ==
    Returned =>
        LET once == merge(input.source, input.dest, Dedup(codepoints_to_copy))
        IN  /\ glyphs_to_copy.val = once.glyphs_to_copy.val
            /\ dest_font.glyf = once.dest_font.glyf
            /\ dest_font.cmap = once.dest_font.cmap

\* the same, for the requests that repeat no codepoint
C3_NoRepetition ==
    (Returned /\ Dedup(codepoints_to_copy) = codepoints_to_copy) => C3_DuplicatesNoOp

\* C4: a run that a malformed range string ends has opened, read and written
\* no font file.
C4_ParseErrorBeforeIO ==
    (pc = "exit" /\ exc = Some("ValueError")) => io = <<>>

\* the second pass printed the outcome of the glyph scheduled under this key
Handled(source_glyph_name) ==
    \/ CopyRaised(source_glyph_name)
    \/ \E i \in LinesOf("Copied") \cup LinesOf("Copied component") :
           stdout[i].glyph = glyphs_to_copy.val[source_glyph_name].dest

\* C5: every failure of the second pass is counted as one skipped glyph, the
\* glyphs scheduled after it are still processed, and the run goes on to the
\* rename, the stripping of the tables and the save.
C5_FailureSkipsOne ==
    /\ skipped_count = Cardinality(LinesOf("Skip")) + Cardinality(LinesOf("Error"))
    /\ pc = "second_pass" =>
           \A j \in 1..(idx - 1) : Handled(glyphs_to_copy.keys[j])
    /\ (LinesOf("Error") # {} /\ exc # None) => exc = Some("OSError")
    /\ (LinesOf("Error") # {} /\ pc = "exit" /\ exc = None) =>
           /\ \A j \in 1..Len(glyphs_to_copy.keys) : Handled(glyphs_to_copy.keys[j])
           /\ input.family_name # <<>> =>
                  LinesOf("Font family renamed")
                      \cup LinesOf("Warning: Font does not have a 'name' table") # {}
           /\ Len(removed_tables) = Cardinality(input.dest.tables \ dest_font.tables)
           /\ LinesOf("Saving modified font") # {}
           /\ output = Some(dest_font)

\* a failure, then a glyph copied after it, and the font saved
C5_Witness ==
    /\ pc = "exit"
    /\ output # None
    /\ \E i \in LinesOf("Error") : \E j \in LinesOf("Copied") : i < j

\* C6: the process exits with 1, and without any file operation, when the
\* source or the destination path does not exist; with 1 when copy_glyphs
\* raises; with 0 when copy_glyphs runs to its end.
C6_ExitCodes ==
    pc = "exit" =>
        /\ exit_code # None
        /\ (~input.source_exists \/ ~input.dest_exists) =>
               (exit_code = Some(1) /\ io = <<>>)
        /\ exc # None => exit_code = Some(1)
        /\ LinesOf("Complete") # {} => exit_code = Some(0)

\* a run that skipped every requested codepoint and exits with 0
C6_Witness ==
    /\ pc = "exit"
    /\ exit_code = Some(0)
    /\ copied_count = 0
    /\ skipped_count > 0
    /\ skipped_count = Len(codepoints_to_copy)

\* a run that raised and exits with 1
C6_WitnessRaised ==
    pc = "exit" /\ exc = Some("KeyError") /\ exit_code = Some(1)

\* C7: when the loop over the ranges ends, a range A-B with A <= B, under
\* every choice of prefixes and case, has parsed to A, A+1, ..., B, and a bare
\* value to that value alone; neither raises.
C7_RangeParsed ==
    (Len(input.ranges) = 1 /\ pc \in {"tables", "except"}) =>
        /\ \A pa, pb \in Prefixes : \A a, b \in Endpoints :
               (input.ranges[1] = RangeText(pa, a, pb, b) /\ a.value <= b.value) =>
                   /\ exc # Some("ValueError")
                   /\ Len(codepoints_to_copy) = b.value - a.value + 1
                   /\ \A i \in 1..Len(codepoints_to_copy) :
                          codepoints_to_copy[i] = a.value + i - 1
        /\ \A pa \in Prefixes : \A a \in Endpoints :
               input.ranges[1] = pa \o a.text =>
                   /\ exc # Some("ValueError")
                   /\ codepoints_to_copy = <<a.value>>

\* u+41-0X4A parsed to the ten codepoints 0x41..0x4A
C7_Witness ==
    /\ pc = "tables"
    /\ input.ranges = << <<"u", "+", "4", "1", "-", "0", "X", "4", "A">> >>
    /\ Len(codepoints_to_copy) = 10
    /\ codepoints_to_copy[10] = 74

RECURSIVE WithoutSpaces(_)
WithoutSpaces(s) ==
    IF s = <<>>
    THEN <<>>
    ELSE IF Head(s) = " "
         THEN WithoutSpaces(Tail(s))
         ELSE <<Head(s)>> \o WithoutSpaces(Tail(s))

\* the naming records the claim expects after the renaming
ExpectedNames(names, name) ==
    LET subfamily ==
            IF \E i \in 1..Len(names) : names[i].nameID = 2
            THEN names[CHOOSE i \in 1..Len(names) :
                          /\ names[i].nameID = 2
                          /\ \A j \in 1..(i - 1) : names[j].nameID # 2].string
            ELSE <<"R", "e", "g", "u", "l", "a", "r">>
    IN  [i \in 1..Len(names) |->
            [nameID |-> names[i].nameID,
             string |->
                 CASE names[i].nameID \in {1, 16} -> name
                   [] names[i].nameID = 4 -> name \o <<" ">> \o subfamily
                   [] names[i].nameID = 6 ->
                        WithoutSpaces(name) \o <<"-">> \o WithoutSpaces(subfamily)
                   [] OTHER -> names[i].string]]

\* C8: the renaming step rewrites the records 1, 4, 6 and 16 from the new
\* name and the first subfamily record (or "Regular"), leaves every other
\* record and table as it was, and leaves a font with no naming table
\* unchanged.
C8_Rename ==
    [][(pc = "rename" /\ input.family_name # <<>>) =>
          IF "name" \in dest_font.tables
          THEN dest_font' =
                   [dest_font EXCEPT !.names = ExpectedNames(dest_font.names, input.family_name)]
          ELSE dest_font' = dest_font]_vars

\* "My Font" over a table whose first subfamily is "Semi Bold": the
\* PostScript name is MyFont-SemiBold and record 3 is as it was
C8_Witness ==
    /\ pc = "strip"
    /\ input.family_name = Chars("My Font")
    /\ Len(dest_font.names) = 3
    /\ dest_font.names[1] = NameRecord(3, Chars("Mono"))
    /\ dest_font.names[2] = NameRecord(2, Chars("Semi Bold"))
    /\ dest_font.names[3] =
           NameRecord(6, <<"M", "y", "F", "o", "n", "t", "-", "S", "e", "m", "i", "B", "o", "l", "d">>)

VariationSet == {variation_tables[i] : i \in 1..Len(variation_tables)}

\* C9: the font that is saved holds no variable-font table, and the tables
\* reported as removed are those the destination held.
C9_VariableTablesStripped ==
    /\ pc = "save" => dest_font.tables \cap VariationSet = {}
    /\ output # None =>
           /\ output[1].tables = input.dest.tables \ VariationSet
           /\ {removed_tables[i] : i \in 1..Len(removed_tables)}
                  = input.dest.tables \cap VariationSet
           /\ Len(removed_tables) = Cardinality(input.dest.tables \cap VariationSet)

\* a destination that held all seven tables, saved without them
C9_Witness ==
    /\ output # None
    /\ VariationSet \subseteq input.dest.tables
    /\ removed_tables = variation_tables

\* C10: every scheduled glyph, with a codepoint or a component, is inserted
\* under a name the destination's glyph table did not hold, so that no glyph
\* the destination held on input is overwritten.
C10_FreshIdentifiers ==
    /\ \A k \in DOMAIN glyphs_to_copy.val :
           glyphs_to_copy.val[k].dest \notin DOMAIN input.dest.glyf
    /\ Returned =>
           \A name \in DOMAIN input.dest.glyf : dest_font.glyf[name] = input.dest.glyf[name]

\* the same, for the glyphs scheduled with a codepoint
C10_FreshAllocatedNames ==
    \A k \in DOMAIN glyphs_to_copy.val :
        glyphs_to_copy.val[k].codepoint # None =>
            glyphs_to_copy.val[k].dest \notin DOMAIN input.dest.glyf

\* the lines that report an insertion into the destination glyph table
Insertions == LinesOf("Copied") \cup LinesOf("Copied component")

\* the key of glyphs_to_copy whose insertion the i-th line reports
InsertedKey(i) ==
    CHOOSE k \in DOMAIN glyphs_to_copy.val :
        /\ glyphs_to_copy.val[k].dest = stdout[i].glyph
        /\ glyphs_to_copy.val[k].codepoint = stdout[i].codepoint

\* the glyphs of the source table that the glyph depends on
Dependencies(glyph_name) ==
    get_component_glyphs(source_font, glyph_name) \cap DOMAIN source_font.glyf

\* C11: when a scheduled composite glyph is inserted in the copy pass, every
\* glyph of its dependency closure has already been inserted, as a component
\* (no codepoint) under its source name: never after the composite.
C11_DependenciesFirst ==
    \A i \in Insertions :
        \A c \in Dependencies(InsertedKey(i)) :
            \E j \in 1..i : stdout[j] = Line("Copied component", None, c)

\* what does hold: by the end of the copy pass every dependency that is not
\* itself requested by a codepoint has been inserted under its source name
C11_DependenciesInserted ==
    Returned =>
        \A i \in Insertions :
            \A c \in Dependencies(InsertedKey(i)) :
                \/ \E j \in 1..Len(stdout) : stdout[j] = Line("Copied component", None, c)
                \/ glyphs_to_copy.val[c].codepoint # None

\* copy_glyphs has been left, by its return or by an exception
LeftCopyGlyphs == pc \in {"return", "except"} \/ (pc = "exit" /\ io # <<>>)

\* C12: on every path out of copy_glyphs after the fonts were opened, by a
\* return or by an exception, the source and the destination font are closed.
C12_FontsReleased ==
    LeftCopyGlyphs => open_fonts = {}

\* what does hold: the fonts are closed when copy_glyphs returns
C12_FontsReleasedOnReturn ==
    (Returned \/ (pc = "exit" /\ exit_code = Some(0))) => open_fonts = {}

\* the naming policy, written out for the codepoints the sources map
PolicyName ==
    (65 :> "uni0041") @@ (66 :> "uni0042") @@ (65535 :> "uniFFFF") @@ (65536 :> "u10000")

\* the first pass is about to allocate a name for the codepoint at idx
Allocating ==
    /\ pc = "first_pass"
    /\ idx <= Len(codepoints_to_copy)
    /\ "cmap" \in source_font.tables
    /\ Resolves(idx) # None

\* the name the step of the first pass has allocated
Allocated == glyphs_to_copy'.val[Resolves(idx)[1]].dest

\* the destination names of the glyphs scheduled with a codepoint
NamesOfCodepoints ==
    [k \in {k \in DOMAIN glyphs_to_copy.val : glyphs_to_copy.val[k].codepoint # None} |->
        glyphs_to_copy.val[k].dest]

\* C13: the name allocated for a codepoint is not a used name; it is the
\* policy name of the codepoint (uni + 4 hex digits up to U+FFFF, u + hex
\* above) when that is unused, else the policy name + .altN for the smallest
\* N >= 1 that gives an unused name; the name is added to the used names, and
\* the scheduled codepoints hold pairwise distinct names.
C13_NameAllocation ==
    /\ [][ (Allocating /\ idx' = idx + 1) =>
              LET E == existing_glyph_names
                  base == PolicyName[codepoints_to_copy[idx]]
              IN  /\ Allocated \notin E
                  /\ existing_glyph_names' = E \cup {Allocated}
                  /\ IF base \notin E
                     THEN Allocated = base
                     ELSE \E N \in 1..(Cardinality(E) + 1) :
                              /\ Allocated = base \o ".alt" \o ToString(N)
                              /\ \A k \in 1..(N - 1) :
                                     (base \o ".alt" \o ToString(k)) \in E ]_vars
    /\ [](\A j, k \in DOMAIN NamesOfCodepoints :
              j # k => NamesOfCodepoints[j] # NamesOfCodepoints[k])

\* a codepoint above U+FFFF was given its second suffix, and two codepoints
\* of the request hold names
C13_Witness ==
    /\ \E k \in DOMAIN NamesOfCodepoints : NamesOfCodepoints[k] = "u10000.alt2"
    /\ Cardinality(DOMAIN NamesOfCodepoints) = 2

\* the glyphs that the glyph refers to as its components
References(font, glyph_name) ==
    IF "glyf" \in font.tables /\ glyph_name \in DOMAIN font.glyf
    THEN {font.glyf[glyph_name].components[i] :
            i \in 1..Len(font.glyf[glyph_name].components)}
    ELSE {}

\* the least set that holds S and the references of its members
RECURSIVE ReferenceClosure(_, _)
ReferenceClosure(font, S) ==
    LET T == S \cup UNION {References(font, g) : g \in S}
    IN  IF T = S THEN S ELSE ReferenceClosure(font, T)

\* the glyphs reachable from the glyph through one or more references
Reachable(font, glyph_name) == ReferenceClosure(font, References(font, glyph_name))

\* the glyph names of a font, those it refers to, and one it does not know
NamesAbout(font) ==
    DOMAIN font.glyf \cup UNION {References(font, g) : g \in DOMAIN font.glyf} \cup {"ghost"}

\* the first pass has run to its end
FirstPassDone ==
    pc \in {"components", "second_pass", "rename", "strip", "save", "report", "return"}

\* C14: on the acyclic glyph tables, get_component_glyphs returns the set of
\* the glyphs reachable from the glyph through one or more component
\* references, and the empty set for a simple glyph, a glyph the table does
\* not hold, and a font with no glyf table; the first pass collects that set
\* for every requested glyph.
C14_ComponentClosure ==
    /\ pc = "tables" =>
           \A font \in {source_font, dest_font} :
               \A g \in NamesAbout(font) :
                   /\ get_component_glyphs(font, g) = Reachable(font, g)
                   /\ ( \/ "glyf" \notin font.tables
                        \/ g \notin DOMAIN font.glyf
                        \/ font.glyf[g].components = <<>> )
                          => get_component_glyphs(font, g) = {}
    /\ FirstPassDone =>
           component_glyphs =
               UNION {Reachable(source_font, Resolves(i)[1]) :
                        i \in {i \in 1..Len(codepoints_to_copy) : Resolves(i) # None}}

\* the first pass has collected a glyph that the requested composite reaches
\* only through another composite, and a name the glyph table does not hold
C14_Witness ==
    /\ pc = "components"
    /\ "Aringacute" \in DOMAIN glyphs_to_copy.val
    /\ References(source_font, "Aringacute") = {"Aring"}
    /\ component_glyphs = {"Aring", "ring", "missing"}

====
